---- MODULE Spec2Model ----
(***************************************************************************)
(* Model of the two gensim notebooks in                                    *)
(* src/Gensim/.ipynb_checkpoints/Gensim Methods-checkpoint.ipynb:          *)
(*   - the KeyedVectors notebook (lines 1-421): word_vec, most_similar,    *)
(*     most_similar_cosmul, similarity, doesnt_match on a loaded table;    *)
(*   - the TF-IDF notebook (lines 423-672): TfidfModel(corpus),            *)
(*     tfidf[vec], SparseMatrixSimilarity(tfidf[corpus], 12), index[...].  *)
(* Each notebook cell is an action; the library calls the cells make are   *)
(* operators that compute what the call computes.  Floating point numbers  *)
(* are fixed-point integers in units of 1/Scale (floor rounding).          *)
(***************************************************************************)
EXTENDS Integers, Sequences, FiniteSets, TLC

VARIABLES
    corpus,     \* the corpus literal of the TF-IDF notebook
    tfidf,      \* the TfidfModel object (num_docs, num_nnz, dfs, idfs)
    index,      \* the SparseMatrixSimilarity object (rows of the matrix)
    vec,        \* the query variable of the TF-IDF notebook
    syn0,       \* KeyedVectors: word -> raw vector, in index2word order
    syn0norm,   \* KeyedVectors: cache of unit vectors, filled by init_sims()
    call,       \* the literals of the KeyedVectors cell that is run
    out         \* what the last executed cell returned or raised

vars == <<corpus, tfidf, index, vec, syn0, syn0norm, call, out>>

\* ------------------------------------------------------------------ bounds

\* longest positive list, longest negative list and largest topn drawn for
\* most_similar and most_similar_cosmul; longest list drawn for doesnt_match
MaxPositive == 2
MaxNegative == 1
MaxTopn == 2
MaxWords == 4
\* longest query bag-of-words drawn for tfidf[vec] / index[tfidf[vec]]
MaxLen == 2
\* largest raw count in a drawn query
MaxTf == 2

\* ------------------------------------------------------- numeric helpers

\* One unit of a float is 1/Scale.
Scale == 1000

Abs(x) == IF x < 0 THEN 0 - x ELSE x

RECURSIVE SqrtSearch(_, _, _)
SqrtSearch(n, lo, hi) ==
    IF lo >= hi THEN lo
    ELSE LET mid == (lo + hi + 1) \div 2
         IN  IF mid * mid <= n THEN SqrtSearch(n, mid, hi)
             ELSE SqrtSearch(n, lo, mid - 1)

\* math.sqrt on a non-negative fixed-point square: floor of the root
ISqrt(n) == SqrtSearch(n, 0, 46340)

RECURSIVE SumSeq(_)
SumSeq(s) == IF s = <<>> THEN 0 ELSE Head(s) + SumSeq(Tail(s))

\* ----------------------------------------------------------- the corpus

ToyCorpus ==
    << << <<0, 1>>, <<1, 1>>, <<2, 1>> >>,
       << <<2, 1>>, <<3, 1>>, <<4, 1>>, <<5, 1>>, <<6, 1>>, <<8, 1>> >>,
       << <<1, 1>>, <<3, 1>>, <<4, 1>>, <<7, 1>> >>,
       << <<0, 1>>, <<4, 2>>, <<7, 1>> >>,
       << <<3, 1>>, <<5, 1>>, <<6, 1>> >>,
       << <<9, 1>> >>,
       << <<9, 1>>, <<10, 1>> >>,
       << <<9, 1>>, <<10, 1>>, <<11, 1>> >>,
       << <<8, 1>>, <<10, 1>>, <<11, 1>> >> >>

\* the query of the notebook
Vec == << <<0, 1>>, <<4, 1>> >>

\* num_features given to SparseMatrixSimilarity
NumFeatures == 12

\* A second corpus, so that a feature occurring in every document (id 0) and
\* a document made only of such features (the last one) are among the inputs.
CommonCorpus ==
    << << <<0, 1>>, <<4, 1>> >>,
       << <<0, 1>>, <<9, 2>> >>,
       << <<0, 2>>, <<4, 1>>, <<3, 1>> >>,
       << <<0, 1>> >> >>

Corpora == {ToyCorpus, CommonCorpus}

\* ------------------------------------------------------ models.TfidfModel

\* math.log(x) / math.log(2.0) for x = 1..10, in units of 1/Scale
Log2Table == <<0, 1000, 1585, 2000, 2322, 2585, 2807, 3000, 3170, 3322>>

\* df2idf(docfreq, totaldocs): log2(totaldocs / docfreq)
df2idf(docfreq, totaldocs) == Log2Table[totaldocs] - Log2Table[docfreq]

\* the (document, position) pairs of a corpus, and its term ids
Entries(c) == UNION {{<<d, k>> : k \in DOMAIN c[d]} : d \in DOMAIN c}

TermIds(c) == {c[p[1]][p[2]][1] : p \in Entries(c)}

\* TfidfModel.initialize(corpus): dfs[termid] is incremented once per entry
TfidfModel(c) ==
    LET entries == Entries(c)
        dfs     == [t \in TermIds(c) |->
                       Cardinality({p \in entries : c[p[1]][p[2]][1] = t})]
    IN  [built    |-> TRUE,
         num_docs |-> Len(c),
         num_nnz  |-> Cardinality(entries),
         dfs      |-> dfs,
         idfs     |-> [t \in TermIds(c) |-> df2idf(dfs[t], Len(c))]]

NoTfidf == [built |-> FALSE, num_docs |-> 0, num_nnz |-> 0,
            dfs |-> <<>>, idfs |-> <<>>]

\* mutant: a term the corpus never held gets weight 1.0 instead of 0.0
IdfGetDefaultOne(m, termid) == IF termid \in DOMAIN m.idfs THEN m.idfs[termid] ELSE Scale

\* self.idfs.get(termid, 0.0)
IdfGet(m, termid) == IF termid \in DOMAIN m.idfs THEN m.idfs[termid] ELSE 0

\* the squares of the weights of a sparse vector
RECURSIVE Squares(_)
Squares(v) == IF v = <<>> THEN <<>> ELSE <<Head(v)[2] * Head(v)[2]>> \o Squares(Tail(v))

\* math.sqrt(sum(val ** 2 for _, val in vec))
VecLen(v) == ISqrt(SumSeq(Squares(v)))

\* matutils.unitvec on a gensim sparse vector: an empty vector is returned as
\* it is; a non-empty vector of length 0 fails the assertion length > 0.0
UnitVecFails(v) == v # <<>> /\ VecLen(v) = 0

\* mutant: divides by the sum of the weights instead of the Euclidean length
unitvecL1(v) ==
    IF v = <<>> THEN v
    ELSE LET RECURSIVE Total(_)
             Total(w) == IF w = <<>> THEN 0 ELSE Abs(Head(w)[2]) + Total(Tail(w))
         IN  [k \in DOMAIN v |-> <<v[k][1], (v[k][2] * Scale) \div Total(v)>>]

unitvec(v) ==
    IF v = <<>> THEN v
    ELSE [k \in DOMAIN v |-> <<v[k][1], (v[k][2] * Scale) \div VecLen(v)>>]

\* TfidfModel.__getitem__, before normalisation: the terms of non-zero idf,
\* in the order of the input, weighted tf * idf
Weighted(m, bow) ==
    LET Known(e) == IdfGet(m, e[1]) # 0
        kept     == SelectSeq(bow, Known)
    IN  [k \in DOMAIN kept |-> <<kept[k][1], kept[k][2] * IdfGet(m, kept[k][1])>>]

TfidfFails(m, bow) == UnitVecFails(Weighted(m, bow))

\* TfidfModel.__getitem__(bow): weight, normalise, drop |weight| <= eps
TfidfGetItem(m, bow) ==
    LET NonZero(e) == Abs(e[2]) > 0
    IN  SelectSeq(unitvec(Weighted(m, bow)), NonZero)

\* tfidf[corpus]
TfidfCorpus(m, c) == [d \in DOMAIN c |-> TfidfGetItem(m, c[d])]

\* ------------------------------------- similarities.SparseMatrixSimilarity

\* the value a sparse row holds at a column: stored entries of one column add up
RECURSIVE RowValue(_, _)
RowValue(row, termid) ==
    IF row = <<>> THEN 0
    ELSE (IF Head(row)[1] = termid THEN Head(row)[2] ELSE 0) + RowValue(Tail(row), termid)

\* mutant: multiplies the k-th stored entries, whatever their columns
RECURSIVE SparseDotPositional(_, _)
SparseDotPositional(row, query) ==
    IF query = <<>> \/ row = <<>> THEN 0
    ELSE (Head(row)[2] * Head(query)[2]) \div Scale
         + SparseDotPositional(Tail(row), Tail(query))

\* one element of index * query: the row times the query column
RECURSIVE SparseDot(_, _)
SparseDot(row, query) ==
    IF query = <<>> THEN 0
    ELSE (RowValue(row, Head(query)[1]) * Head(query)[2]) \div Scale
         + SparseDot(row, Tail(query))

\* mutant: the rows are stored last document first
SparseMatrixSimilarityReversed(docs) ==
    [built |-> TRUE,
     rows |-> [d \in DOMAIN docs |-> unitvec(docs[Len(docs) + 1 - d])]]

\* SparseMatrixSimilarity(corpus, num_features): every document is made a unit
\* vector and becomes one row, in the order of the corpus
SparseMatrixSimilarity(docs) ==
    [built |-> TRUE, rows |-> [d \in DOMAIN docs |-> unitvec(docs[d])]]

NoIndex == [built |-> FALSE, rows |-> <<>>]

\* index[query]: the query is made a unit vector, then index * query
GetSimilarities(ix, query) ==
    [d \in DOMAIN ix.rows |-> SparseDot(ix.rows[d], unitvec(query))]

\* ----------------------------------------------------- the TF-IDF notebook

NoCall == [op |-> "none", positive |-> <<>>, negative |-> <<>>, topn |-> 0,
           words |-> <<>>]

NoOut == [op |-> "none", arg |-> <<>>, status |-> "ok", result |-> <<>>]

\* term ids of the drawn queries: 0 and 4 are those of the notebook's vec, 9
\* is held by other documents, NumFeatures is the first id no corpus holds
QueryIds == {0, 4, 9, NumFeatures}

QueryEntries == QueryIds \X (0..MaxTf)

Queries == UNION {[1..n -> QueryEntries] : n \in 0..MaxLen}

\* The literals the cell "vec = [...]" is run with next: the literal it holds,
\* or that literal with one entry added at the end or removed from the front.
\* Every member of Queries is reached this way from the empty vector.
Literals(v) ==
    {v} \cup (IF v = <<>> THEN {} ELSE {Tail(v)})
        \cup (IF Len(v) < MaxLen THEN {Append(v, e) : e \in QueryEntries} ELSE {})

InitTfidfNotebook ==
    /\ corpus \in Corpora
    /\ tfidf = NoTfidf
    /\ index = NoIndex
    /\ vec = <<>>
    /\ syn0 = <<>>
    /\ syn0norm = <<>>
    /\ call = NoCall
    /\ out = NoOut

\* tfidf = models.TfidfModel(corpus)
BuildTfidf ==
    /\ ~tfidf.built
    /\ tfidf' = TfidfModel(corpus)
    /\ out' = [NoOut EXCEPT !.op = "TfidfModel"]
    /\ UNCHANGED <<corpus, index, vec, syn0, syn0norm, call>>

\* index = similarities.SparseMatrixSimilarity(tfidf[corpus], num_features=12)
BuildIndex ==
    /\ tfidf.built
    /\ ~index.built
    /\ index' = SparseMatrixSimilarity(TfidfCorpus(tfidf, corpus))
    /\ out' = [NoOut EXCEPT !.op = "SparseMatrixSimilarity"]
    /\ UNCHANGED <<corpus, tfidf, vec, syn0, syn0norm, call>>

\* mutant: the model counts every transformed vector as one more document
TransformCounting(bow) ==
    /\ tfidf.built
    /\ vec' = bow
    /\ tfidf' = [tfidf EXCEPT !.num_docs = IF @ < 10 THEN @ + 1 ELSE @]
    /\ out' = [op |-> "transform", arg |-> bow, status |-> "ok",
               result |-> IF TfidfFails(tfidf, bow) THEN <<>>
                          ELSE TfidfGetItem(tfidf, bow)]
    /\ UNCHANGED <<corpus, index, syn0, syn0norm, call>>

\* vec = [...]; print(tfidf[vec])
Transform(bow) ==
    /\ tfidf.built
    /\ vec' = bow
    /\ out' = IF TfidfFails(tfidf, bow)
              THEN [op |-> "transform", arg |-> bow,
                    status |-> "AssertionError", result |-> <<>>]
              ELSE [op |-> "transform", arg |-> bow,
                    status |-> "ok", result |-> TfidfGetItem(tfidf, bow)]
    /\ UNCHANGED <<corpus, tfidf, index, syn0, syn0norm, call>>

\* sims = index[tfidf[vec]]; print(list(enumerate(sims)))
Score ==
    /\ tfidf.built
    /\ index.built
    /\ out' = IF TfidfFails(tfidf, vec)
              THEN [op |-> "score", arg |-> vec,
                    status |-> "AssertionError", result |-> <<>>]
              ELSE [op |-> "score", arg |-> vec, status |-> "ok",
                    result |-> GetSimilarities(index, TfidfGetItem(tfidf, vec))]
    /\ UNCHANGED <<corpus, tfidf, index, vec, syn0, syn0norm, call>>

NextTfidfNotebook ==
    \/ BuildTfidf
    \/ BuildIndex
    \/ \E bow \in Literals(vec) : Transform(bow)
    \/ Score

SpecTfidf == InitTfidfNotebook /\ [][NextTfidfNotebook]_vars

\* ------------------------------------------------------ gm.KeyedVectors

\* index2word of the loaded table
Index2Word == <<"monday", "tuesday", "saturday", "car">>

\* a word the table does not hold
Absent == "splonge"

Tokens == {Index2Word[i] : i \in DOMAIN Index2Word} \cup {Absent}

\* The vectors load_word2vec_format reads, two components each, in units of
\* 1/Scale: stand-ins for the 300 components of the GoogleNews file, with the
\* three days close to each other and "car" away from them.
Vectors ==
    [w \in {Index2Word[i] : i \in DOMAIN Index2Word} |->
        CASE w = "monday"   -> <<100, 900>>
          [] w = "tuesday"  -> <<200, 900>>
          [] w = "saturday" -> <<300, 700>>
          [] w = "car"      -> <<900, -200>>]

\* the order Python gives the words as strings
WordRank(w) ==
    CASE w = "car" -> 1 [] w = "monday" -> 2 [] w = "saturday" -> 3
      [] w = "tuesday" -> 4 [] OTHER -> 5

InVocab(kv, w) == w \in DOMAIN kv

RECURSIVE DenseSquares(_)
DenseSquares(v) == IF v = <<>> THEN <<>> ELSE <<Head(v) * Head(v)>> \o DenseSquares(Tail(v))

\* blas_nrm2(vec)
DenseLen(v) == ISqrt(SumSeq(DenseSquares(v)))

\* matutils.unitvec on an array: a vector of length 0 is returned as it is
unitvecDense(v) ==
    IF DenseLen(v) > 0 THEN [i \in DOMAIN v |-> (v[i] * Scale) \div DenseLen(v)]
    ELSE v

\* numpy.dot of two arrays
dot(u, v) == SumSeq([i \in DOMAIN u |-> u[i] * v[i]]) \div Scale

\* init_sims(): syn0norm is computed once and kept
init_sims(kv, cache) ==
    IF cache # <<>> THEN cache ELSE [w \in DOMAIN kv |-> unitvecDense(kv[w])]

\* the words of a list that the table does not hold
Missing(kv, ws) == {k \in DOMAIN ws : ~InVocab(kv, ws[k])}

\* array(mean).mean(axis=0) of the weighted unit vectors of the words
RECURSIVE SumVectors(_, _, _)
SumVectors(norm, ws, weight) ==
    IF ws = <<>> THEN <<0, 0>>
    ELSE LET v == norm[Head(ws)]
             r == SumVectors(norm, Tail(ws), weight)
         IN  <<weight * v[1] + r[1], weight * v[2] + r[2]>>

MeanVector(norm, positive, negative) ==
    LET p == SumVectors(norm, positive, 1)
        n == SumVectors(norm, negative, -1)
        k == Len(positive) + Len(negative)
    IN  <<(p[1] + n[1]) \div k, (p[2] + n[2]) \div k>>

\* the vocabulary indexes of the input words
AllWords(ws) == {i \in DOMAIN Index2Word : \E k \in DOMAIN ws : ws[k] = Index2Word[i]}

\* matutils.argsort(dists, topn=k, reverse=True): the k indexes of the largest
\* values, largest first; the order among equal values is not defined
Argsort(dists, k) ==
    LET n == Len(dists)
        m == IF k < n THEN k ELSE n
    IN  {s \in [1..m -> 1..n] :
            /\ \A i, j \in 1..m : i < j => (s[i] # s[j] /\ dists[s[i]] >= dists[s[j]])
            /\ \A x \in 1..n : (\A i \in 1..m : s[i] # x) =>
                  \A i \in 1..m : dists[s[i]] >= dists[x]}

\* mutant: the input words are not taken out of the result
TopResultKeepingInputs(best, dists, allw, topn) ==
    LET m == IF topn < Len(best) THEN topn ELSE Len(best)
    IN  [k \in 1..m |-> <<Index2Word[best[k]], dists[best[k]]>>]

\* result = [(index2word[sim], dists[sim]) for sim in best if sim not in
\* all_words]; return result[:topn]
TopResult(best, dists, allw, topn) ==
    LET Kept(i) == i \notin allw
        kept    == SelectSeq(best, Kept)
        m       == IF topn < Len(kept) THEN topn ELSE Len(kept)
    IN  [k \in 1..m |-> <<Index2Word[kept[k]], dists[kept[k]]>>]

\* dists = dot(syn0norm, mean) of most_similar
MostSimilarDists(norm, positive, negative) ==
    LET mean == unitvecDense(MeanVector(norm, positive, negative))
    IN  [i \in DOMAIN Index2Word |-> dot(norm[Index2Word[i]], mean)]

\* prod of (1 + dot(syn0norm, term)) / 2 over the terms; 1.0 for no term
RECURSIVE ProdDists(_, _, _)
ProdDists(norm, w, terms) ==
    IF terms = <<>> THEN Scale
    ELSE (((Scale + dot(norm[w], norm[Head(terms)])) \div 2)
          * ProdDists(norm, w, Tail(terms))) \div Scale

\* dists = prod(pos_dists) / (prod(neg_dists) + 0.000001) of most_similar_cosmul
CosmulDists(norm, positive, negative) ==
    [i \in DOMAIN Index2Word |->
        (ProdDists(norm, Index2Word[i], positive) * Scale * Scale)
            \div (ProdDists(norm, Index2Word[i], negative) * Scale + 1)]

\* mutant: only the first vector is made a unit vector
similarityHalfNormed(kv, w1, w2) == dot(unitvecDense(kv[w1]), kv[w2])

\* similarity(w1, w2) = dot(unitvec(self[w1]), unitvec(self[w2]))
similarity(kv, w1, w2) == dot(unitvecDense(kv[w1]), unitvecDense(kv[w2]))

\* used_words = [word for word in words if word in self]
UsedWords(kv, ws) == LET Has(w) == InVocab(kv, w) IN SelectSeq(ws, Has)

\* dists = dot(vectors, mean) of doesnt_match, one per used word
DoesntMatchDists(norm, used) ==
    LET mean == unitvecDense(MeanVector(norm, used, <<>>))
    IN  [k \in DOMAIN used |-> dot(norm[used[k]], mean)]

\* mutant: sorted(...)[-1][1], the word closest to the mean
doesnt_matchLargest(norm, used) ==
    used[CHOOSE k \in DOMAIN used :
            \E d \in {DoesntMatchDists(norm, used)} :
               \A j \in DOMAIN used :
                   \/ d[k] > d[j]
                   \/ d[k] = d[j] /\ WordRank(used[k]) >= WordRank(used[j])]

\* sorted(zip(dists, used_words))[0][1]: the smallest distance, and among
\* equal distances the smallest word
doesnt_match(norm, used) ==
    used[CHOOSE k \in DOMAIN used :
            \E d \in {DoesntMatchDists(norm, used)} :
               \A j \in DOMAIN used :
                   \/ d[k] < d[j]
                   \/ d[k] = d[j] /\ WordRank(used[k]) <= WordRank(used[j])]

\* ------------------------------------------------- the KeyedVectors notebook

WordLists(n) == UNION {[1..k -> Tokens] : k \in 0..n}

Calls ==
    {[op |-> o, positive |-> p, negative |-> n, topn |-> t, words |-> <<>>] :
        o \in {"most_similar", "most_similar_cosmul"},
        p \in WordLists(MaxPositive), n \in WordLists(MaxNegative),
        t \in 1..MaxTopn}
    \cup {[NoCall EXCEPT !.op = "similarity", !.words = ws] : ws \in [1..2 -> Tokens]}
    \cup {[NoCall EXCEPT !.op = "doesnt_match", !.words = ws] : ws \in WordLists(MaxWords)}

\* model = gm.KeyedVectors.load_word2vec_format(route, binary = True), and the
\* literals of the cell that is run on it first
InitKeyedVectors ==
    /\ syn0 = Vectors
    /\ syn0norm = <<>>
    /\ call \in Calls
    /\ out = NoOut
    /\ corpus = <<>>
    /\ tfidf = NoTfidf
    /\ index = NoIndex
    /\ vec = <<>>

Raised(op, arg, error) ==
    [op |-> op, arg |-> arg, status |-> error, result |-> <<>>]

Returned(op, arg, result) ==
    [op |-> op, arg |-> arg, status |-> "ok", result |-> result]

\* mutant: the lookup answers from the cache of unit vectors once it is filled
WordVecNormed(w) ==
    /\ call' = [NoCall EXCEPT !.op = "word_vec", !.words = <<w>>]
    /\ out' = IF ~InVocab(syn0, w) THEN Raised("word_vec", call', "KeyError")
              ELSE IF syn0norm # <<>> THEN Returned("word_vec", call', syn0norm[w])
              ELSE Returned("word_vec", call', syn0[w])
    /\ UNCHANGED <<corpus, tfidf, index, vec, syn0, syn0norm>>

\* model.wv[word]; this cell can be run after any other, with any word
WordVec(w) ==
    /\ call' = [NoCall EXCEPT !.op = "word_vec", !.words = <<w>>]
    /\ out' = IF InVocab(syn0, w) THEN Returned("word_vec", call', syn0[w])
              ELSE Raised("word_vec", call', "KeyError")
    /\ UNCHANGED <<corpus, tfidf, index, vec, syn0, syn0norm>>

\* model.most_similar(positive = ..., negative = ..., topn = ...)
MostSimilar ==
    /\ call.op = "most_similar"
    /\ syn0norm' = init_sims(syn0, syn0norm)
    /\ IF Missing(syn0, call.positive \o call.negative) # {}
       THEN out' = Raised("most_similar", call, "KeyError")
       ELSE IF call.positive \o call.negative = <<>>
       THEN out' = Raised("most_similar", call, "ValueError")
       ELSE \E dists \in {MostSimilarDists(syn0norm', call.positive, call.negative)},
               allw \in {AllWords(call.positive \o call.negative)} :
               \E best \in Argsort(dists, call.topn + Cardinality(allw)) :
                  out' = Returned("most_similar", call,
                                  TopResult(best, dists, allw, call.topn))
    /\ UNCHANGED <<corpus, tfidf, index, vec, syn0, call>>

\* model.wv.most_similar_cosmul(positive = ..., negative = ..., topn = ...)
MostSimilarCosmul ==
    /\ call.op = "most_similar_cosmul"
    /\ syn0norm' = init_sims(syn0, syn0norm)
    /\ IF Missing(syn0, call.positive \o call.negative) # {}
       THEN out' = Raised("most_similar_cosmul", call, "KeyError")
       ELSE IF call.positive = <<>>
       THEN out' = Raised("most_similar_cosmul", call, "ValueError")
       ELSE \E dists \in {CosmulDists(syn0norm', call.positive, call.negative)},
               allw \in {AllWords(call.positive \o call.negative)} :
               \E best \in Argsort(dists, call.topn + Cardinality(allw)) :
                  out' = Returned("most_similar_cosmul", call,
                                  TopResult(best, dists, allw, call.topn))
    /\ UNCHANGED <<corpus, tfidf, index, vec, syn0, call>>

\* model.wv.similarity(w1, w2)
Similarity ==
    /\ call.op = "similarity"
    /\ out' = IF Missing(syn0, call.words) # {}
              THEN Raised("similarity", call, "KeyError")
              ELSE Returned("similarity", call,
                            similarity(syn0, call.words[1], call.words[2]))
    /\ UNCHANGED <<corpus, tfidf, index, vec, syn0, syn0norm, call>>

\* model.wv.doesnt_match(words): the words the table does not hold are left out
DoesntMatch ==
    /\ call.op = "doesnt_match"
    /\ syn0norm' = init_sims(syn0, syn0norm)
    /\ out' = IF UsedWords(syn0, call.words) = <<>>
              THEN Raised("doesnt_match", call, "ValueError")
              ELSE Returned("doesnt_match", call,
                            doesnt_match(syn0norm', UsedWords(syn0, call.words)))
    /\ UNCHANGED <<corpus, tfidf, index, vec, syn0, call>>

NextKeyedVectors ==
    \/ \E w \in Tokens : WordVec(w)
    \/ MostSimilar
    \/ MostSimilarCosmul
    \/ Similarity
    \/ DoesntMatch

SpecKeyedVectors == InitKeyedVectors /\ [][NextKeyedVectors]_vars

\* -------------------------------------------- claims, KeyedVectors notebook

\* the words a call names
CallWords(c) == c.positive \o c.negative \o c.words

\* the vocabulary words that are not among the words of a list
Others(ws) == {i \in DOMAIN Index2Word : i \notin AllWords(ws)}

C5_SimilaritySymmetric ==
    (out.op = "similarity" /\ out.status = "ok") =>
        out.result = similarity(syn0, out.arg.words[2], out.arg.words[1])

C5_Witness ==
    /\ out.op = "similarity" /\ out.status = "ok"
    /\ out.arg.words = <<"car", "monday">>
    /\ out.result # 0 /\ out.result < Scale

\* the cosine of each word of a list to the mean of the list's unit vectors
CosineToMean(kv, ws) ==
    DoesntMatchDists([w \in DOMAIN kv |-> unitvecDense(kv[w])], ws)

LookupOps == {"word_vec", "most_similar", "most_similar_cosmul", "similarity",
              "doesnt_match"}

NamesAbsentWord == out.op \in LookupOps /\ Missing(syn0, CallWords(out.arg)) # {}

ReproducesNotebook ==
    (corpus = ToyCorpus /\ out.arg = Vec /\ out.status = "ok") =>
        /\ tfidf.built => tfidf.num_docs = 9 /\ tfidf.num_nnz = 28
        /\ out.op = "transform" => out.result = << <<0, 807>>, <<4, 589>> >>
        /\ out.op = "score" =>
              \A d \in 1..9 :
                 Abs(out.result[d] - <<466, 191, 246, 820, 0, 0, 0, 0, 0>>[d]) <= 3

Scored == out.op = "score" /\ out.status = "ok"
Transformed == out.op = "transform" /\ out.status = "ok"

\* the raw count a bag-of-words gives a term (entries of one term add up)
Count(bow, termid) == RowValue(bow, termid)

\* some term has a non-zero count in the query and a non-zero weight in the row
SharesFeature(bow, row) ==
    \E t \in QueryIds : Count(bow, t) # 0 /\ RowValue(row, t) # 0

\* C1: a document of the index that shares no feature of non-zero weight with
\* the query scores exactly 0; for the toy corpus and the query [(0,1),(4,1)]
\* these are the documents 4, 5, 6, 7 and 8.
C1_DisjointScoresZero ==
    Scored =>
        /\ \A d \in DOMAIN out.result :
              ~SharesFeature(out.arg, index.rows[d]) => out.result[d] = 0
        /\ (corpus = ToyCorpus /\ out.arg = Vec) =>
              /\ \A d \in 5..9 : ~SharesFeature(out.arg, index.rows[d])
              /\ \A d \in 5..9 : out.result[d] = 0

C1_Witness ==
    /\ Scored /\ corpus = ToyCorpus /\ out.arg = Vec
    /\ out.result[6] = 0 /\ out.result[1] > 0

\* C2: for the toy corpus and the query [(0,1),(4,1)], document 3 (the fourth
\* row) scores strictly higher than each of the other eight documents.
C2_Doc3Highest ==
    (Scored /\ corpus = ToyCorpus /\ out.arg = Vec) =>
        \A d \in (1..9) \ {4} : out.result[4] > out.result[d]

C2_Witness ==
    /\ Scored /\ corpus = ToyCorpus /\ out.arg = Vec
    /\ Len(out.result) = 9 /\ out.result[4] > out.result[1]
    /\ out.result[1] > out.result[3] /\ out.result[3] > out.result[2]

\* the cosine of two sparse vectors: the product of their unit vectors
Cosine(a, b) == SparseDot(unitvec(b), unitvec(a))

\* C3: a score call returns one score per corpus document, and the score at
\* position d is the similarity of the query to the d-th document of the
\* corpus as it was supplied.
C3_OneScorePerDocumentInOrder ==
    Scored =>
        /\ Len(out.result) = Len(corpus)
        /\ \A d \in 1..Len(corpus) :
              out.result[d] = Cosine(TfidfGetItem(tfidf, out.arg),
                                     TfidfGetItem(tfidf, corpus[d]))

C3_Witness ==
    /\ Scored /\ corpus = ToyCorpus /\ Len(out.result) = 9
    /\ out.arg = << <<9, 1>> >>
    /\ out.result[6] > out.result[7] /\ out.result[7] > out.result[8]
    /\ out.result[8] > out.result[9]

\* the Euclidean norm is 1, up to the rounding of the entries
NormIsOne(v) == Abs(VecLen(v) - Scale) <= Len(v)

\* a query entry that carries weight: a non-zero count of a term whose idf is
\* non-zero (document frequency at least 1 and less than the number of documents)
Informative(m, bow) == \E k \in DOMAIN bow : bow[k][2] # 0 /\ IdfGet(m, bow[k][1]) # 0

\* C7 as stated: every transform, the empty vector's included, returns a
\* vector of Euclidean norm 1.
C7_AlwaysUnitNorm ==
    out.op = "transform" => (out.status = "ok" /\ NormIsOne(out.result))

\* C7 amended: a transform returns a vector of norm 1 when the input has an
\* entry of non-zero count and non-zero idf; an input none of whose terms has
\* a non-zero idf (the empty vector, terms of document frequency zero, terms
\* occurring in every document) transforms to the empty vector, of norm 0.
C7_UnitNormOrEmpty ==
    out.op = "transform" =>
        /\ Informative(tfidf, out.arg) =>
              (out.status = "ok" /\ NormIsOne(out.result))
        /\ (\A k \in DOMAIN out.arg : IdfGet(tfidf, out.arg[k][1]) = 0) =>
              (out.status = "ok" /\ out.result = <<>>)

C7_Witness ==
    /\ Transformed /\ corpus = CommonCorpus
    /\ out.arg = << <<0, 2>>, <<4, 1>> >>
    /\ Len(out.result) = 1 /\ NormIsOne(out.result)

RECURSIVE Ids(_)
Ids(v) == IF v = <<>> THEN <<>> ELSE <<Head(v)[1]>> \o Ids(Tail(v))

Ascending(s) == \A i, j \in DOMAIN s : i < j => s[i] < s[j]

\* s can be read off t from left to right
RECURSIVE IsSubsequence(_, _)
IsSubsequence(s, t) ==
    IF s = <<>> THEN TRUE
    ELSE IF t = <<>> THEN FALSE
    ELSE IF Head(s) = Head(t) THEN IsSubsequence(Tail(s), Tail(t))
    ELSE IsSubsequence(s, Tail(t))

DocFreq(m, termid) == IF termid \in DOMAIN m.dfs THEN m.dfs[termid] ELSE 0

\* C8 as stated: for every input the output's feature-ids are strictly
\* ascending, are feature-ids of the input, and have non-zero document frequency.
C8_AlwaysAscending ==
    Transformed =>
        /\ Ascending(Ids(out.result))
        /\ \A k \in DOMAIN out.result :
              /\ \E j \in DOMAIN out.arg : out.arg[j][1] = out.result[k][1]
              /\ DocFreq(tfidf, out.result[k][1]) # 0

\* C8 amended: the output's feature-ids follow the order of the input (so they
\* are strictly ascending whenever the input's are), each is a feature-id of
\* the input, and none has document frequency zero.
C8_InputOrderKept ==
    Transformed =>
        /\ IsSubsequence(Ids(out.result), Ids(out.arg))
        /\ Ascending(Ids(out.arg)) => Ascending(Ids(out.result))
        /\ \A k \in DOMAIN out.result : DocFreq(tfidf, out.result[k][1]) # 0

C8_Witness ==
    /\ Transformed /\ corpus = ToyCorpus
    /\ out.arg = << <<4, 1>>, <<12, 2>> >>
    /\ Ids(out.result) = <<4>>

\* C10: once built, the model and the index keep the values construction gave
\* them through every transform and score call, and what a call returns is a
\* function of the corpus and of the call's vector alone.
C10_ModelAndIndexFrozen ==
    /\ tfidf.built => tfidf = TfidfModel(corpus)
    /\ index.built => index = SparseMatrixSimilarity(TfidfCorpus(TfidfModel(corpus), corpus))
    /\ Transformed => out.result = TfidfGetItem(TfidfModel(corpus), out.arg)
    /\ Scored =>
          out.result =
             GetSimilarities(SparseMatrixSimilarity(TfidfCorpus(TfidfModel(corpus), corpus)),
                             TfidfGetItem(TfidfModel(corpus), out.arg))

C10_Witness ==
    /\ Scored /\ index.built /\ corpus = CommonCorpus
    /\ out.arg = << <<4, 2>>, <<9, 1>> >>
    /\ out.result[1] > 0 /\ out.result[2] > 0 /\ out.result[4] = 0

====
